---- MODULE Spec2Model ----
(***************************************************************************)
(* Model of the AI provider layer of suitcaseApp: the provider selector    *)
(* (aiProviderService.ts), the Groq and Gemini adapters (groqService.ts,   *)
(* geminiService.ts) and the fallback service (fallbackService.ts).        *)
(* A capability call is a small process: it is invoked, may suspend at the *)
(* live provider's request, may suspend at the Hugging Face request of the *)
(* fallback service, and settles with a value.                             *)
(***************************************************************************)
EXTENDS Integers, Sequences, FiniteSets, Bags, TLC

\* ---------------------------------------------------------------- bounds
MaxCalls == 2      \* capability calls issued by the application
MaxItems == 1      \* longest JSON array a provider sends
MaxAudited == 1    \* capability calls issued when the answers are recorded

\* ------------------------------------------------------- the ten operations
StructuredOps ==
  {"searchBooks", "consultConcierge", "getOnboardingRecommendations", "generateReviews"}

StringOps ==
  {"chatAboutBook", "translateText", "explainContext",
   "generateBookContent", "getBookSummary", "getBookRecap"}

Ops == StructuredOps \cup StringOps

\* ------------------------------------------------------------ JSON values
Undef == "undefined"

\* a rating as sent: the number n, or no rating field at all
Num(n) == [t |-> "num", n |-> n]
NoNum == [t |-> "undef", n |-> 0]

\* an element of a JSON array sent by a provider (a book or a review object,
\* or the JSON value null)
RawFull ==
  [nul |-> FALSE, title |-> "Dune", coverColor |-> "#fed7aa", categories |-> "['Sci-Fi']",
   matchReason |-> "Masterpiece", reviewerName |-> "Ann", text |-> "Loved it",
   rating |-> Num(5)]

RawSparse ==
  [nul |-> FALSE, title |-> Undef, coverColor |-> Undef, categories |-> Undef,
   matchReason |-> Undef, reviewerName |-> Undef, text |-> Undef, rating |-> NoNum]

RawNull ==
  [nul |-> TRUE, title |-> Undef, coverColor |-> Undef, categories |-> Undef,
   matchReason |-> Undef, reviewerName |-> Undef, text |-> Undef, rating |-> NoNum]

RawItems == {RawFull, RawSparse, RawNull}

RECURSIVE SeqsUpTo(_, _)
SeqsUpTo(S, n) ==
  IF n = 0 THEN {<<>>}
  ELSE LET shorter == SeqsUpTo(S, n - 1)
       IN  shorter \cup {Append(q, x) : q \in {r \in shorter : Len(r) = n - 1}, x \in S}

RawArrays == SeqsUpTo(RawItems, MaxItems)

\* parsed JSON values: an array, an object {reply, suggestions}, null, and
\* NoJson for "no value" (the text does not parse)
JArr(items) == [t |-> "arr", items |-> items, reply |-> Undef, sugg |-> Undef]
JObj(reply, sugg, items) == [t |-> "obj", items |-> items, reply |-> reply, sugg |-> sugg]
JNull == [t |-> "null", items |-> <<>>, reply |-> Undef, sugg |-> Undef]
NoJson == [t |-> "none", items |-> <<>>, reply |-> Undef, sugg |-> Undef]

\* sugg: "arr" = suggestions is the array in items, "str" = suggestions is a
\* string (not an array), Undef = the key is missing
ArrayValues == {JArr(a) : a \in RawArrays}

ObjectValues ==
  {JObj("Try Dune.", "arr", a) : a \in RawArrays}
    \cup {JObj(Undef, "arr", <<>>), JObj("Try Dune.", "str", <<>>)}

\* --------------------------------------------------------- response texts
\* k = "empty"    the empty string
\*     "plain"    prose s without brackets or code fences
\*     "json"     exactly the serialisation of v
\*     "fenced"   ```json <v> ```  (or ```html <s> ``` when v = NoJson)
\*     "embedded" prose, then the serialisation of v, then prose
\*     "fences"   code-fence markers and nothing else
\*     "fencedProse" ```json <prose, the serialisation of v, prose> ```
\*     "bareFenced"  ``` <v> ```  (a fence without the json tag)
TEmpty == [k |-> "empty", s |-> "", v |-> NoJson]
TPlain(s) == [k |-> "plain", s |-> s, v |-> NoJson]
TJson(v) == [k |-> "json", s |-> "", v |-> v]
TFenced(v) == [k |-> "fenced", s |-> "", v |-> v]
TFencedHtml(s) == [k |-> "fenced", s |-> s, v |-> NoJson]
TEmbedded(v) == [k |-> "embedded", s |-> "", v |-> v]
TFences == [k |-> "fences", s |-> "", v |-> NoJson]
TFencedProse(v) == [k |-> "fencedProse", s |-> "", v |-> v]
TBareFenced(v) == [k |-> "bareFenced", s |-> "", v |-> v]

\* answers to the operations that ask for prose, and to generateBookContent,
\* which asks for HTML and may get it inside a code fence
ProseTexts == {TEmpty, TPlain("Hello")}

HtmlTexts ==
  {TEmpty, TPlain("<p>Call me Ishmael.</p>"), TFencedHtml("<p>Call me Ishmael.</p>"), TFences}

\* answers to the operations that ask for a JSON array
ArrayTexts ==
  {TEmpty, TPlain("not json at all"), TJson(JNull), TJson(JObj("Try Dune.", Undef, <<>>)),
   TFenced(JArr(<<RawSparse>>)), TEmbedded(JArr(<<RawFull>>))}
    \cup {TJson(v) : v \in ArrayValues}

\* answers to consultConcierge, which asks for {reply, suggestions}
ObjectTexts ==
  {TEmpty, TPlain("Happy to help."), TJson(JNull),
   TFenced(JObj("Try Dune.", "arr", <<>>)), TEmbedded(JObj("Try Dune.", Undef, <<>>))}
    \cup {TJson(v) : v \in ObjectValues}

\* answers to translateText: nothing, a translation, and the same
\* translation with white space around it
TranslationTexts == {TEmpty, TPlain("Hello"), TPlain(" Hello\n")}

\* the texts a provider is taken to answer an operation with
TextsFor(op) ==
  IF op = "generateBookContent" THEN HtmlTexts
  ELSE IF op = "translateText" THEN TranslationTexts
  ELSE IF op \in StringOps THEN ProseTexts
  ELSE IF op = "consultConcierge" THEN ObjectTexts
  ELSE ArrayTexts

IsEmptyText(x) == x.k = "empty"

\* JSON.parse(text): the value, or NoJson when it throws
JSONparse(x) == IF x.k = "json" THEN x.v ELSE NoJson

\* JavaScript truthiness of a parsed value (objects and arrays are truthy)
Truthy(v) == v.t \in {"arr", "obj"}

\* a || b on strings, with Undef for undefined
Or(a, b) == IF a = Undef \/ a = "" THEN b ELSE a

\* ------------------------------------------------------------------- ids
\* `<prefix>-${Date.now()}-${index}`: the time stays symbolic (Now) inside the
\* mapping and is fixed by the step that runs it; an id without a time part
\* has t = "-"
Now == "Date.now()"
Clock == {"t1", "t2"}
Id(prefix, t, index) == [p |-> prefix, t |-> t, i |-> index]

\* ------------------------------------------------- results and completions
NoText == [k |-> "none", s |-> "", v |-> NoJson]

\* CapabilityResult: a book sequence, a review sequence, {reply, suggestions}
\* or a string (held as a text)
VBooks(items) == [t |-> "books", items |-> items, text |-> NoText]
VReviews(items) == [t |-> "reviews", items |-> items, text |-> NoText]
VConcierge(reply, items) == [t |-> "concierge", items |-> items, text |-> reply]
VStr(x) == [t |-> "str", items |-> <<>>, text |-> x]
NoValue == [t |-> "none", items |-> <<>>, text |-> NoText]
Rejected == [t |-> "rejected", items |-> <<>>, text |-> NoText]

\* how a piece of code ends: it returns v, it throws, or it returns the
\* promise of the fallback service's function for the same operation
Return(v) == [t |-> "return", v |-> v]
Throw == [t |-> "throw", v |-> NoValue]
Delegate == [t |-> "fallback", v |-> NoValue]

\* what callGroq / generateContent / callLLM hand to their caller
GotText(x) == [t |-> "text", text |-> x]
Thrown == [t |-> "throw", text |-> NoText]

\* ---------------------------------------------------------- the network
\* netErr    the request fails (fetch rejects)
\* http      a non-success HTTP status
\* badJson   a success status whose body is not JSON
\* noField   a JSON body without the envelope (no choices array / null)
\* noContent an envelope without the text field
\* ok        an envelope carrying text
FailKinds == {"netErr", "http", "badJson", "noField", "noContent"}

Outcomes(op) ==
  {[k |-> f, text |-> NoText] : f \in FailKinds}
    \cup {[k |-> "ok", text |-> x] : x \in TextsFor(op)}

\* ------------------------------------------------------------ groqService
Math_min(a, b) == IF a < b THEN a ELSE b
Math_max(a, b) == IF a > b THEN a ELSE b

\* variant: the content is trimmed before it is returned
callGroq_trimmed(o) ==
  CASE o.k \in {"netErr", "http", "badJson", "noField"} -> Thrown
    [] o.k = "noContent" -> GotText(TEmpty)
    [] o.text.k = "plain" /\ o.text.s = " Hello\n" -> GotText(TPlain("Hello"))
    [] OTHER -> GotText(o.text)

callGroq(o) ==
  CASE o.k \in {"netErr", "http", "badJson", "noField"} -> Thrown
    [] o.k = "noContent" -> GotText(TEmpty)
    [] OTHER -> GotText(o.text)

\* JSON.parse(text); else, when /```json?\s*([\s\S]*?)```/ matches,
\* JSON.parse of the fenced part or null; else, when
\* /\[[\s\S]*\]|\{[\s\S]*\}/ matches, JSON.parse of the span or null; else null.
\* The fence pattern needs the letters "jso" after the back-ticks, so a bare
\* fence is not matched by it and is left to the span pattern.
Groq_parseJSON(x) ==
  IF JSONparse(x) # NoJson THEN JSONparse(x)
  ELSE IF x.k = "fenced" THEN x.v          \* NoJson when the fenced part is not JSON
  ELSE IF x.k = "fencedProse" THEN NoJson  \* the fenced part does not parse: return null
  ELSE IF x.k \in {"embedded", "bareFenced"} THEN x.v
  ELSE NoJson

HasNullItem(items) == \E i \in 1 .. Len(items) : items[i].nul

Groq_searchItem(item, index) ==
  [id |-> Id("groq-search", Now, index), title |-> Or(item.title, "Unknown"), coverColor |-> Or(item.coverColor, "#e2e8f0"),
   categories |-> Or(item.categories, "[]"), matchReason |-> Undef, source |-> "groq"]

Groq_bookItem(item, color, id) ==
  [id |-> id, title |-> item.title, coverColor |-> Or(item.coverColor, color),
   categories |-> Or(item.categories, "[]"), matchReason |-> item.matchReason,
   source |-> "groq"]

Groq_conciergeItem(item, index) ==
  Groq_bookItem(item, "#cbd5e1", Id("groq-concierge", Now, index))

Groq_onboardingItem(item, index) ==
  Groq_bookItem(item, "#e2e8f0", Id("groq-rec", Now, index))

\* Math.min(5, Math.max(1, item.rating || 4)): a missing rating and the
\* rating 0 are both falsy and become 4 before the clamp
Groq_rating(rating) ==
  LET r == IF rating.t = "undef" \/ rating.n = 0 THEN 4 ELSE rating.n
  IN  Num(Math_min(5, Math_max(1, r)))

Groq_reviewItem(item, index) ==
  [id |-> Id("groq-review", "-", index), reviewerName |-> Or(item.reviewerName, "Reader"),
   rating |-> Groq_rating(item.rating), text |-> Or(item.text, "Great book!"),
   avatarColor |-> "#3b82f6"]

Groq_searchItems(items) ==
  [i \in 1 .. Len(items) |-> Groq_searchItem(items[i], i - 1)]
Groq_conciergeItems(items) ==
  [i \in 1 .. Len(items) |-> Groq_conciergeItem(items[i], i - 1)]
Groq_onboardingItems(items) ==
  [i \in 1 .. Len(items) |-> Groq_onboardingItem(items[i], i - 1)]
Groq_reviewItems(items) ==
  [i \in 1 .. Len(items) |-> Groq_reviewItem(items[i], i - 1)]

\* return data.map(...): reading a field of a null element throws, otherwise
\* the mapped value v is returned
MapOrThrow(items, v) == IF HasNullItem(items) THEN Throw ELSE Return(v)

\* variant: an empty array is taken for a failure
Groq_searchBooks_emptyFails(data) ==
  IF ~Truthy(data) \/ data.t # "arr" \/ data.items = <<>> THEN Delegate
  ELSE MapOrThrow(data.items, VBooks(Groq_searchItems(data.items)))

Groq_searchBooks(data) ==
  IF ~Truthy(data) \/ data.t # "arr" THEN Delegate
  ELSE MapOrThrow(data.items, VBooks(Groq_searchItems(data.items)))

Groq_consultConcierge(response, data) ==
  IF ~Truthy(data) THEN Return(VConcierge(response, <<>>))
  ELSE IF data.t = "obj" /\ data.sugg = "str" THEN Throw    \* "...".map is not a function
  ELSE LET suggestions == IF data.t = "obj" /\ data.sugg = "arr" THEN data.items ELSE <<>>
           reply == TPlain(Or(data.reply, "I'm thinking about that..."))
       IN  MapOrThrow(suggestions, VConcierge(reply, Groq_conciergeItems(suggestions)))

Groq_getOnboardingRecommendations(data) ==
  IF ~Truthy(data) \/ data.t # "arr" THEN Delegate
  ELSE MapOrThrow(data.items, VBooks(Groq_onboardingItems(data.items)))

Groq_generateReviews(data) ==
  IF ~Truthy(data) \/ data.t # "arr" THEN Delegate
  ELSE MapOrThrow(data.items, VReviews(Groq_reviewItems(data.items)))

Groq_generateBookContent(response) ==
  IF IsEmptyText(response) THEN Delegate ELSE Return(VStr(response))

\* the try block of each exported function, from the answer of callGroq on
Groq_try(op, llm) ==
  IF llm.t = "throw" THEN Throw
  ELSE LET response == llm.text
           data == Groq_parseJSON(response)
       IN  CASE op = "searchBooks" -> Groq_searchBooks(data)
             [] op = "consultConcierge" -> Groq_consultConcierge(response, data)
             [] op = "getOnboardingRecommendations" -> Groq_getOnboardingRecommendations(data)
             [] op = "generateReviews" -> Groq_generateReviews(data)
             [] op = "generateBookContent" -> Groq_generateBookContent(response)
             [] OTHER -> Return(VStr(response))

\* try { ... } catch (error) { return Fallback.<op>(...) }
Groq_op(op, llm) ==
  LET r == Groq_try(op, llm) IN IF r.t = "throw" THEN Delegate ELSE r

\* ---------------------------------------------------------- geminiService
\* ai.models.generateContent: the SDK throws on every failure; a response
\* without text has text undefined, which every use site treats as ""
generateContent(o) ==
  CASE o.k \in {"netErr", "http", "badJson", "noField"} -> Thrown
    [] o.k = "noContent" -> GotText(TEmpty)
    [] OTHER -> GotText(o.text)

\* text.replace(/```json\n?|```/g, '').trim()  (and /```html|```/g in
\* generateBookContent): the code-fence markers are deleted
StripFences(x) ==
  CASE x.k = "fenced" /\ x.v # NoJson -> TJson(x.v)
    [] x.k = "bareFenced" -> TJson(x.v)
    [] x.k = "fencedProse" -> TEmbedded(x.v)
    [] x.k = "fenced" -> TPlain(x.s)
    [] x.k = "fences" -> TEmpty
    [] OTHER -> x

Gemini_parseJSON(x) ==
  IF IsEmptyText(x) THEN JArr(<<>>)
  ELSE IF JSONparse(x) # NoJson THEN JSONparse(x)
  ELSE IF JSONparse(StripFences(x)) # NoJson THEN JSONparse(StripFences(x))
  ELSE JArr(<<>>)

Gemini_bookItem(item, reason, id) ==
  [id |-> id, title |-> item.title, coverColor |-> Or(item.coverColor, "#E2E8F0"),
   categories |-> Or(item.categories, "[]"), matchReason |-> reason, source |-> Undef]

Gemini_searchItem(item, index) ==
  Gemini_bookItem(item, Undef, Id("gemini-search", Now, index))

\* prefix: "concierge" in consultConcierge, "gemini-onboarding" in
\* getOnboardingRecommendations
Gemini_suggestionItem(item, prefix, index) ==
  Gemini_bookItem(item, item.matchReason, Id(prefix, Now, index))

Gemini_searchItems(items) ==
  [i \in 1 .. Len(items) |-> Gemini_searchItem(items[i], i - 1)]

Gemini_suggestionItems(items, prefix) ==
  [i \in 1 .. Len(items) |-> Gemini_suggestionItem(items[i], prefix, i - 1)]

Gemini_colors == <<"#EF4444", "#F59E0B", "#10B981", "#3B82F6", "#8B5CF6", "#EC4899">>

Gemini_reviews(items) ==
  [i \in 1 .. Len(items) |->
     [id |-> Id("review", "-", i - 1),
      reviewerName |-> items[i].reviewerName, rating |-> items[i].rating,
      text |-> items[i].text,
      avatarColor |-> Gemini_colors[((i - 1) % Len(Gemini_colors)) + 1]]]

Gemini_searchBooks(data) ==
  IF data.t # "arr" THEN Throw                       \* data.map is not a function
  ELSE MapOrThrow(data.items, VBooks(Gemini_searchItems(data.items)))

Gemini_consultConcierge(data) ==
  IF data.t = "null" \/ (data.t = "obj" /\ data.sugg = "str") THEN Throw
  ELSE LET suggestions == IF data.t = "obj" /\ data.sugg = "arr" THEN data.items ELSE <<>>
           reply == TPlain(Or(data.reply, "I'm pondering that thought..."))
       IN  MapOrThrow(suggestions, VConcierge(reply, Gemini_suggestionItems(suggestions, "concierge")))

Gemini_getOnboardingRecommendations(data) ==
  IF data.t # "arr" THEN Throw
  ELSE MapOrThrow(data.items, VBooks(Gemini_suggestionItems(data.items, "gemini-onboarding")))

Gemini_generateReviews(data) ==
  IF data.t # "arr" THEN Throw
  ELSE MapOrThrow(data.items, VReviews(Gemini_reviews(data.items)))

\* response.text || "<literal>"
Gemini_placeholder(op) ==
  CASE op = "chatAboutBook" -> TPlain("I couldn't generate a response.")
    [] op = "translateText" -> TPlain("Translation failed.")
    [] op = "explainContext" -> TPlain("Could not explain context.")
    [] op = "generateBookContent" -> TPlain("<p>Content unavailable.</p>")
    [] op = "getBookSummary" -> TPlain("Summary unavailable.")
    [] op = "getBookRecap" -> TPlain("Recap unavailable.")

TextOr(x, lit) == IF IsEmptyText(x) THEN lit ELSE x

Gemini_generateBookContent(text) ==
  Return(VStr(StripFences(TextOr(text, Gemini_placeholder("generateBookContent")))))

Gemini_try(op, llm) ==
  IF llm.t = "throw" THEN Throw
  ELSE LET text == llm.text
           data == Gemini_parseJSON(text)
       IN  CASE op = "searchBooks" -> Gemini_searchBooks(data)
             [] op = "consultConcierge" -> Gemini_consultConcierge(data)
             [] op = "getOnboardingRecommendations" -> Gemini_getOnboardingRecommendations(data)
             [] op = "generateReviews" -> Gemini_generateReviews(data)
             [] op = "generateBookContent" -> Gemini_generateBookContent(text)
             [] OTHER -> Return(VStr(TextOr(text, Gemini_placeholder(op))))

\* try { ... } catch { return Fallback.<op>(...) }
Gemini_op(op, llm) ==
  LET r == Gemini_try(op, llm) IN IF r.t = "throw" THEN Delegate ELSE r

\* -------------------------------------------------------- fallbackService
callLLM(o) ==
  CASE o.k \in {"netErr", "http", "badJson", "noField"} -> Thrown
    [] o.k = "noContent" -> GotText(TEmpty)
    [] OTHER -> GotText(o.text)

\* text.match(/\[.*\]/s) || text.match(/\{.*\}/s), then JSON.parse(match[0]):
\* the array pattern is tried first, so an object that holds an array yields
\* that array
extractJSON(x) ==
  IF x.k \notin {"json", "fenced", "embedded", "fencedProse", "bareFenced"} THEN NoJson
  ELSE CASE x.v.t = "arr" -> x.v
         [] x.v.t = "obj" /\ x.v.sugg = "arr" -> JArr(x.v.items)
         [] x.v.t = "obj" -> x.v
         [] OTHER -> NoJson

Fallback_searchItem(b, i) ==
  [id |-> Id("fallback", Now, i), title |-> b.title, coverColor |-> b.coverColor,
   categories |-> Or(b.categories, "['General']"), matchReason |-> b.matchReason,
   source |-> Undef]

Fallback_searchItems(items) ==
  [i \in 1 .. Len(items) |-> Fallback_searchItem(items[i], i - 1)]

OfflineBook(id, title, color, cats, reason) ==
  [id |-> id, title |-> title, coverColor |-> color, categories |-> cats, matchReason |-> reason,
   source |-> Undef]

OfflineReview(id, name, rating, text, color) ==
  [id |-> id, rating |-> Num(rating), reviewerName |-> name, text |-> text, avatarColor |-> color]

\* the value each function returns from its catch block, or as its only value
Fallback_literal(op) ==
  CASE op = "searchBooks" ->
         VBooks(<<OfflineBook(Id("offline", "-", 1), "The Offline Library", "#e2e8f0", "['System']", Undef)>>)
    [] op = "consultConcierge" ->
         VConcierge(TPlain("I'm having trouble connecting to the cloud, but I'm here listening."),
                    <<>>)
    [] op = "getOnboardingRecommendations" ->
         VBooks(<<OfflineBook(Id("off", "-", 1), "The Great Gatsby", "#fef3c7", "['Classic']", "Timeless classic"),
                  OfflineBook(Id("off", "-", 2), "1984", "#f3f4f6", "['Sci-Fi']", "Essential reading"),
                  OfflineBook(Id("off", "-", 3), "Dune", "#fed7aa", "['Sci-Fi']", "Masterpiece"),
                  OfflineBook(Id("off", "-", 4), "Sapiens", "#e0f2fe", "['History']", "Thought provoking")>>)
    [] op = "generateReviews" ->
         VReviews(<<OfflineReview(Id("rev", "-", 1), "Offline Reader", 5, "This book is a masterpiece!", "#3b82f6"),
                    OfflineReview(Id("rev", "-", 2), "Bookworm", 4, "Really enjoyed the plot twists.", "#ef4444")>>)
    [] op = "chatAboutBook" ->
         VStr(TPlain("I can't analyze this book right now due to connection issues."))
    [] op = "translateText" -> VStr(TPlain("Translation service unavailable."))
    [] op = "explainContext" -> VStr(TPlain("Context service unavailable."))
    [] op = "generateBookContent" ->
         VStr(TPlain("<h3>Chapter</h3><p>We are currently unable to generate the full text</p>"))
    [] op = "getBookSummary" -> VStr(TPlain("Summary unavailable offline."))
    [] op = "getBookRecap" -> VStr(TPlain("Recap unavailable offline."))

\* variant: every fallback function asks Hugging Face first
Fallback_usesLLM_always(op) == TRUE

\* getOnboardingRecommendations and generateReviews return their list at once
Fallback_usesLLM(op) == op \notin {"getOnboardingRecommendations", "generateReviews"}

Fallback_searchBooks(text) ==
  LET json == extractJSON(text)
  IN  IF Truthy(json) /\ json.t = "arr"
      THEN MapOrThrow(json.items, VBooks(Fallback_searchItems(json.items)))
      ELSE Throw                                            \* "Parse failed"

Fallback_consultConcierge(text) ==
  LET json == extractJSON(text)
  IN  IF Truthy(json) /\ Or(json.reply, "") # ""
      THEN Return(VConcierge(TPlain(json.reply), <<>>))
      ELSE Return(VConcierge(text, <<>>))

Fallback_generateBookContent(text) ==
  Return(VStr(TextOr(text, TPlain("<p>Content generation failed.</p>"))))

\* the try block of each function, from the answer of callLLM on
Fallback_try(op, llm) ==
  IF llm.t = "throw" THEN Throw
  ELSE CASE op = "searchBooks" -> Fallback_searchBooks(llm.text)
         [] op = "consultConcierge" -> Fallback_consultConcierge(llm.text)
         [] op = "generateBookContent" -> Fallback_generateBookContent(llm.text)
         [] OTHER -> Return(VStr(llm.text))

\* variant: the catch block rethrows
Fallback_op_rethrow(op, llm) ==
  IF ~Fallback_usesLLM(op) THEN Return(Fallback_literal(op)) ELSE Fallback_try(op, llm)

\* try { ... } catch (e) { return <literal> }
Fallback_op(op, llm) ==
  IF ~Fallback_usesLLM(op) THEN Return(Fallback_literal(op))
  ELSE LET r == Fallback_try(op, llm)
       IN  IF r.t = "throw" THEN Return(Fallback_literal(op)) ELSE r

\* ------------------------------------------------------------------ state
VARIABLES
  env,           \* which credential variables are set (import.meta.env, process.env)
  provider,      \* aiProviderService: const provider = getProvider()
  calls,         \* the capability calls issued so far, a bag of call records
  failedBefore,  \* history: some live attempt has already failed over to the fallback
  invokedAfter,  \* history: a call was issued after such a failure
  audit,         \* history: TRUE when the call records keep what each endpoint answered
  fnName,        \* the helper function applied last on its own ("none" before any)
  fnIn,          \* the response text and the rating the helper functions are applied to
  fnOut,         \* what the helper function returned
  view,          \* App: const [view, setView]
  isCurating,    \* App: const [isCurating, setIsCurating]
  onboardingResults,  \* App: const [onboardingResults, setOnboardingResults]
  userPrefs,     \* App: const [userPrefs, setUserPrefs]
  wallet,        \* App: const [wallet, setWallet]
  handlers,      \* App: the runs of handleOnboardingComplete started so far
  part,          \* the part of the user interface a run exercises
  onboarding,    \* Onboarding: its state hooks, and what it passed to onComplete
  localStorage,  \* window.localStorage: key -> stored text
  storageLog,    \* storageService: the last saveLibrary and loadLibrary of each user
  reader,        \* Reader: its state hooks and its requests in flight
  session,       \* App: the user, the data loaded for them, and handleLogout's position
  detail         \* BookDetail: its chat state hooks and its requests in flight

callVars == <<env, provider, calls, failedBefore, invokedAfter, audit>>
fnVars == <<fnName, fnIn, fnOut>>
appVars == <<view, isCurating, onboardingResults, userPrefs, wallet, handlers>>
uiVars == <<part, onboarding, localStorage, storageLog, reader, session, detail>>
vars == <<callVars, fnVars, appVars, uiVars>>

Envs ==
  [VITE_GROQ_API_KEY : BOOLEAN, VITE_GEMINI_API_KEY : BOOLEAN,
   API_KEY : BOOLEAN, VITE_HF_TOKEN : BOOLEAN]

\* ------------------------------------------------------ aiProviderService
\* variant: Gemini is preferred to Groq
getProvider_geminiFirst(e) ==
  IF e.VITE_GEMINI_API_KEY THEN "gemini"
  ELSE IF e.VITE_GROQ_API_KEY THEN "groq"
  ELSE "fallback"

getProvider(e) ==
  IF e.VITE_GROQ_API_KEY THEN "groq"
  ELSE IF e.VITE_GEMINI_API_KEY THEN "gemini"
  ELSE "fallback"

activeService ==
  IF provider = "groq" THEN "GroqService"
  ELSE IF provider = "gemini" THEN "GeminiService"
  ELSE "FallbackService"

\* variant: a failed live attempt demotes the reported provider
getActiveProvider_demoted == IF failedBefore THEN "fallback" ELSE provider

getActiveProvider == provider

isAIAvailable == provider # "fallback"

\* ------------------------------------------------ the credential each module reads
Groq_API_KEY == env.VITE_GROQ_API_KEY        \* const API_KEY = import.meta.env.VITE_GROQ_API_KEY
Gemini_API_KEY == env.API_KEY                \* process.env.API_KEY
Fallback_API_KEY == env.VITE_HF_TOKEN        \* const API_KEY = import.meta.env.VITE_HF_TOKEN

\* variant: the adapter does not look at its key before the request
HasCredential_unchecked(svc) == TRUE

\* if (!API_KEY) return Fallback.<op>(...), the first statement of every
\* adapter function
HasCredential(svc) ==
  IF svc = "GroqService" THEN Groq_API_KEY ELSE Gemini_API_KEY

\* ------------------------------------------------------------ call records
\* pc: "awaitLive" suspended at the live provider's request, "awaitHF"
\* suspended at the Hugging Face request, "done" settled
\* the arguments a call is made with, as far as a prompt or a result could
\* depend on them: the preferences given to getOnboardingRecommendations and
\* the target language given to translateText
NoArg == [genres |-> "-", readingGoal |-> "-", targetLang |-> "-"]

PrefsArgs ==
  {[genres |-> "Sci-Fi", readingGoal |-> "Relaxation", targetLang |-> "-"],
   [genres |-> "History", readingGoal |-> "Learning", targetLang |-> "-"]}

LangArgs == {[genres |-> "-", readingGoal |-> "-", targetLang |-> l] : l \in {"English", "French"}}

ArgsFor(op) ==
  CASE op = "getOnboardingRecommendations" -> PrefsArgs
    [] op = "translateText" -> LangArgs
    [] OTHER -> {NoArg}

NewCall(op, arg) ==
  [pc |-> "start", op |-> op, arg |-> arg, svc |-> activeService, liveReqs |-> 0, hfReqs |-> 0,
   liveLang |-> "-", hfLang |-> "-",
   open |-> {}, lost |-> FALSE, static |-> FALSE, liveAns |-> "none", hfAns |-> "none",
   result |-> NoValue]

Pending == BagToSet(calls)

\* what an endpoint answered, as far as the properties tell answers apart
AnswerClass(o) ==
  CASE o.k \in {"netErr", "http"} -> "failed"
    [] o.k \in {"badJson", "noField", "noContent"} -> "unusable"
    [] o.text = TEmpty -> "emptyText"
    [] o.text = TJson(JArr(<<>>)) -> "emptyArray"
    [] o.text.v = NoJson -> "prose"
    [] OTHER -> "json"

Logged(o) == IF audit THEN AnswerClass(o) ELSE "none"

CallLimit == IF audit THEN MaxAudited ELSE MaxCalls

Replace(r, r2) == (calls (-) SetToBag({r})) (+) SetToBag({r2})

\* the language a translateText request asks for ("-" in every other
\* request). groqService and geminiService: `... to ${targetLang}`.
\* fallbackService: translateText(text) has no language parameter (the
\* adapters call Fallback.translateText(text)) and its prompt is
\* "Translate the following text to English."
Live_promptLang(arg) == arg.targetLang
Fallback_promptLang(op) == IF op = "translateText" THEN "English" ELSE "-"

\* the promise settles: with the returned value, or rejected by a throw
Settle(r, completion) ==
  [r EXCEPT !.pc = "done",
            !.result = IF completion.t = "return" THEN completion.v ELSE Rejected]

\* variant: the offline recommendations are picked by the preferred genre
EnterFallback_byGenre(r) ==
  LET r1 == [r EXCEPT !.static = TRUE]
      picked == IF r.op = "getOnboardingRecommendations" /\ r.arg.genres = "History"
                THEN VBooks(<<Fallback_literal(r.op).items[4]>>)
                ELSE Fallback_op(r.op, Thrown).v
  IN  IF Fallback_usesLLM(r.op) /\ Fallback_API_KEY
      THEN [r1 EXCEPT !.pc = "awaitHF", !.hfReqs = @ + 1, !.open = @ \cup {"hf"}]
      ELSE Settle(r1, Return(picked))

\* Fallback.<op>(...) is invoked: callLLM throws before fetch when the token
\* is missing, otherwise the request goes out and the function suspends
EnterFallback(r) ==
  LET r1 == [r EXCEPT !.static = TRUE]
  IN  IF Fallback_usesLLM(r.op) /\ Fallback_API_KEY
      THEN [r1 EXCEPT !.pc = "awaitHF", !.hfReqs = @ + 1, !.open = @ \cup {"hf"},
                      !.hfLang = Fallback_promptLang(r.op)]
      ELSE Settle(r1, Fallback_op(r.op, Thrown))

\* the live request goes out and the adapter function suspends
SendLive(r) ==
  [r EXCEPT !.pc = "awaitLive", !.liveReqs = @ + 1, !.open = @ \cup {"live"},
            !.liveLang = Live_promptLang(r.arg)]

\* variant: a failed live attempt is retried once before the fallback
Complete_retry(r, completion) ==
  IF completion.t = "fallback"
  THEN IF r.liveReqs < 2 THEN SendLive(r) ELSE EnterFallback(r)
  ELSE Settle(r, completion)

\* the mapping ran at time now: every `${Date.now()}` of its ids is that time
StampItems(items, now) ==
  [i \in 1 .. Len(items) |->
     IF items[i].id.t = Now THEN [items[i] EXCEPT !.id.t = now] ELSE items[i]]

Stamp(completion, now) ==
  IF completion.t = "return"
  THEN [completion EXCEPT !.v.items = StampItems(@, now)]
  ELSE completion

\* the adapter function ends: by a value, by an uncaught throw, or by
\* returning the fallback service's promise
Complete(r, completion) ==
  IF completion.t = "fallback" THEN EnterFallback(r) ELSE Settle(r, completion)

Adapter_op(svc, op, o) ==
  IF svc = "GroqService" THEN Groq_op(op, callGroq(o)) ELSE Gemini_op(op, generateContent(o))

\* the synchronous part of an exported function, up to its first await
Start(r) ==
  IF r.svc = "FallbackService" THEN EnterFallback(r)
  ELSE IF ~HasCredential(r.svc) THEN EnterFallback(r)
  ELSE SendLive(r)

\* ---------------------------------------------------------------- actions
\* App after loadUserData found no stored preferences: the onboarding view,
\* nothing curated yet, the wallet as loadWallet returns it for a new user
AppStart ==
  /\ view = "onboarding"
  /\ isCurating = FALSE
  /\ onboardingResults = <<>>
  /\ userPrefs = NoArg
  /\ wallet = [balance |-> 0, nfts |-> <<>>]
  /\ handlers = <<>>

\* Onboarding as mounted: const [step, setStep] = useState(1), no genre, no
\* goal, an empty name; onComplete not called yet
OnboardingStart ==
  [step |-> 1, name |-> "", selectedGenres |-> <<>>, selectedGoal |-> "", onComplete |-> {}]

\* the user interface before any of its parts is used
UiStart ==
  /\ onboarding = OnboardingStart
  /\ localStorage = <<>>
  /\ storageLog = [saved |-> <<>>, loaded |-> <<>>]
  /\ reader = <<>>
  /\ session = <<>>
  /\ detail = <<>>

NoInput == [text |-> NoText, rating |-> NoNum]
NoOutput == [json |-> NoJson, rating |-> NoNum]

Init ==
  /\ env \in Envs
  /\ provider = getProvider(env)
  /\ calls = EmptyBag
  /\ failedBefore = FALSE
  /\ invokedAfter = FALSE
  /\ audit \in BOOLEAN
  /\ fnName = "none" /\ fnIn = NoInput /\ fnOut = NoOutput
  /\ AppStart
  /\ part = "none" /\ UiStart

\* the application calls one of the ten exported functions
Invoke(op, arg) ==
  /\ BagCardinality(calls) < CallLimit
  /\ calls' = calls (+) SetToBag({Start(NewCall(op, arg))})
  /\ invokedAfter' = (invokedAfter \/ failedBefore)
  /\ UNCHANGED <<env, provider, failedBefore, audit, fnVars, appVars, uiVars>>

\* variant: no continuation runs while some request is hung
LiveRespond_blocked(r, o, now) ==
  /\ r.pc = "awaitLive"
  /\ \A q \in Pending : ~q.lost
  /\ LET completion == Stamp(Adapter_op(r.svc, r.op, o), now)
         r1 == [r EXCEPT !.open = @ \ {"live"}, !.liveAns = Logged(o)]
     IN  /\ calls' = Replace(r, Complete(r1, completion))
         /\ failedBefore' = (failedBefore \/ completion.t = "fallback")
  /\ UNCHANGED <<env, provider, invokedAfter, audit, fnVars, appVars, uiVars>>

\* the live provider's request completes and the adapter function resumes
LiveRespond(r, o, now) ==
  /\ r.pc = "awaitLive"
  /\ ~r.lost
  /\ LET completion == Stamp(Adapter_op(r.svc, r.op, o), now)
         r1 == [r EXCEPT !.open = @ \ {"live"}, !.liveAns = Logged(o)]
     IN  /\ calls' = Replace(r, Complete(r1, completion))
         /\ failedBefore' = (failedBefore \/ completion.t = "fallback")
  /\ UNCHANGED <<env, provider, invokedAfter, audit, fnVars, appVars, uiVars>>

\* the Hugging Face request completes and the fallback function resumes
HFRespond(r, o, now) ==
  /\ r.pc = "awaitHF"
  /\ ~r.lost
  /\ LET r1 == [r EXCEPT !.open = @ \ {"hf"}, !.hfAns = Logged(o)]
     IN  calls' = Replace(r, Settle(r1, Stamp(Fallback_op(r.op, callLLM(o)), now)))
  /\ UNCHANGED <<env, provider, failedBefore, invokedAfter, audit, fnVars, appVars, uiVars>>

\* the outstanding request of a call will never be answered (no fetch
\* carries a timeout or an abort signal)
Lose(r) ==
  /\ r.pc \in {"awaitLive", "awaitHF"}
  /\ ~r.lost
  /\ calls' = Replace(r, [r EXCEPT !.lost = TRUE])
  /\ UNCHANGED <<env, provider, failedBefore, invokedAfter, audit, fnVars, appVars, uiVars>>

Next ==
  \/ \E op \in Ops : \E arg \in ArgsFor(op) : Invoke(op, arg)
  \/ \E r \in Pending : \E o \in Outcomes(r.op) : \E now \in Clock : LiveRespond(r, o, now)
  \/ \E r \in Pending : \E o \in Outcomes(r.op) : \E now \in Clock : HFRespond(r, o, now)
  \/ \E r \in Pending : Lose(r)

Spec == Init /\ [][Next]_vars

\* The event loop runs every continuation whose request has completed; the
\* network owes no answer (Lose), and the application owes no further call.
FairSpec ==
  /\ Spec
  /\ WF_vars(\E r \in Pending : \E o \in Outcomes(r.op) : \E now \in Clock : LiveRespond(r, o, now))
  /\ WF_vars(\E r \in Pending : \E o \in Outcomes(r.op) : \E now \in Clock : HFRespond(r, o, now))

\* ------------------------------------- the helper functions on their own
MaxRatingSent == 7     \* largest rating a provider sends

RatingsSent == {Num(n) : n \in (0 - 2) .. MaxRatingSent} \cup {NoNum}

\* texts handed to the normalizers: each shape of text around an array and
\* around an object, and texts without JSON
NormalizerTexts ==
  LET a == JArr(<<RawFull>>)
      b == JObj("Try Dune.", Undef, <<>>)
      c == JObj("Try Dune.", "arr", <<RawFull>>)
  IN  {TEmpty, TPlain("not json at all")}
        \cup {TJson(v) : v \in {a, b, c}} \cup {TFenced(v) : v \in {a, b}}
        \cup {TEmbedded(v) : v \in {a, b}} \cup {TFencedProse(v) : v \in {a, b}}
        \cup {TBareFenced(v) : v \in {a, b}}

FnInit ==
  /\ env = [VITE_GROQ_API_KEY |-> FALSE, VITE_GEMINI_API_KEY |-> FALSE,
            API_KEY |-> FALSE, VITE_HF_TOKEN |-> FALSE]
  /\ provider = getProvider(env)
  /\ calls = EmptyBag
  /\ failedBefore = FALSE /\ invokedAfter = FALSE /\ audit = FALSE
  /\ fnName = "none"
  /\ fnIn \in [text : NormalizerTexts, rating : RatingsSent]
  /\ fnOut = NoOutput
  /\ AppStart
  /\ part = "none" /\ UiStart

\* the helper functions: parseJSON of groqService, parseJSON of
\* geminiService, extractJSON of fallbackService, and the rating expression
\* of generateReviews in groqService
Normalizers == {"Groq.parseJSON", "Gemini.parseJSON", "Fallback.extractJSON"}
HelperFns == Normalizers \cup {"Groq.rating"}

RunHelper(fn, in) ==
  CASE fn = "Groq.parseJSON" -> [json |-> Groq_parseJSON(in.text), rating |-> NoNum]
    [] fn = "Gemini.parseJSON" -> [json |-> Gemini_parseJSON(in.text), rating |-> NoNum]
    [] fn = "Fallback.extractJSON" -> [json |-> extractJSON(in.text), rating |-> NoNum]
    [] fn = "Groq.rating" -> [json |-> NoJson, rating |-> Groq_rating(in.rating)]

\* one helper function is called on the input
Apply(fn) ==
  /\ fnName' = fn
  /\ fnOut' = RunHelper(fn, fnIn)
  /\ UNCHANGED <<callVars, fnIn, appVars, uiVars>>

FnNext == \E fn \in HelperFns : Apply(fn)

FnSpec == FnInit /\ [][FnNext]_vars

\* ------------------------------------------- App: handleOnboardingComplete
MaxCompletions == 2    \* runs of handleOnboardingComplete (the button stays clickable)

\* const minDelay = new Promise(resolve => setTimeout(resolve, 2500));
\* const dataFetch = getOnboardingRecommendations(prefs);
\* first: which of the two was over first (history)
NewHandler(prefs) ==
  [pc |-> "await", prefs |-> prefs, timer |-> "set", first |-> "none",
   fetch |-> Start(NewCall("getOnboardingRecommendations", prefs))]

FirstOver(first, what) == IF first = "none" THEN what ELSE first

AppInit ==
  /\ env \in Envs
  /\ provider = getProvider(env)
  /\ calls = EmptyBag
  /\ failedBefore = FALSE /\ invokedAfter = FALSE /\ audit = FALSE
  /\ fnName = "none" /\ fnIn = NoInput /\ fnOut = NoOutput
  /\ AppStart
  /\ part = "none" /\ UiStart

\* Onboarding calls onComplete(prefs): the handler runs up to its await
OnboardingComplete(prefs) ==
  /\ view = "onboarding"
  /\ Len(handlers) < MaxCompletions
  /\ isCurating' = TRUE
  /\ userPrefs' = prefs
  /\ wallet' = [balance |-> 100, nfts |-> <<>>]
  /\ LET h == NewHandler(prefs)
     IN  handlers' = Append(handlers,
                            [h EXCEPT !.first = IF h.fetch.pc = "done" THEN "fetch" ELSE "none"])
  /\ UNCHANGED <<callVars, fnVars, uiVars, view, onboardingResults>>

\* the 2500 ms timer of run i fires: minDelay resolves
TimerFires(i) ==
  /\ handlers[i].timer = "set"
  /\ handlers' = [handlers EXCEPT ![i].timer = "fired", ![i].first = FirstOver(@, "timer")]
  /\ UNCHANGED <<callVars, fnVars, uiVars, view, isCurating, onboardingResults, userPrefs, wallet>>

\* the request of run i's fetch is answered and the fetch goes on
FetchResponds(i, o, now) ==
  LET f == handlers[i].fetch
      g == IF f.pc = "awaitLive"
           THEN Complete([f EXCEPT !.open = @ \ {"live"}],
                         Stamp(Adapter_op(f.svc, f.op, o), now))
           ELSE Settle([f EXCEPT !.open = @ \ {"hf"}],
                       Stamp(Fallback_op(f.op, callLLM(o)), now))
  IN  /\ f.pc \in {"awaitLive", "awaitHF"}
      /\ ~f.lost
      /\ handlers' = [handlers EXCEPT ![i].fetch = g,
                        ![i].first = IF g.pc = "done" THEN FirstOver(@, "fetch") ELSE @]
      /\ UNCHANGED <<callVars, fnVars, uiVars, view, isCurating, onboardingResults, userPrefs, wallet>>

\* the request of run i's fetch will never be answered
FetchHangs(i) ==
  /\ handlers[i].fetch.pc \in {"awaitLive", "awaitHF"}
  /\ ~handlers[i].fetch.lost
  /\ handlers' = [handlers EXCEPT ![i].fetch.lost = TRUE]
  /\ UNCHANGED <<callVars, fnVars, uiVars, view, isCurating, onboardingResults, userPrefs, wallet>>

\* variant: the handler goes on as soon as one of the two is over
Resume_race(i) ==
  /\ handlers[i].pc = "await"
  /\ handlers[i].timer = "fired" \/ handlers[i].fetch.pc = "done"
  /\ onboardingResults' =
       IF handlers[i].fetch.pc = "done" THEN handlers[i].fetch.result.items ELSE <<>>
  /\ isCurating' = FALSE
  /\ view' = "library"
  /\ handlers' = [handlers EXCEPT ![i].pc = "done"]
  /\ UNCHANGED <<callVars, fnVars, uiVars, userPrefs, wallet>>

\* const [_, recs] = await Promise.all([minDelay, dataFetch]) is over: the
\* rest of the handler runs (no fetch rejects, so Promise.all never does)
Resume(i) ==
  /\ handlers[i].pc = "await"
  /\ handlers[i].timer = "fired"
  /\ handlers[i].fetch.pc = "done" /\ handlers[i].fetch.result # Rejected
  /\ onboardingResults' = handlers[i].fetch.result.items
  /\ isCurating' = FALSE
  /\ view' = "library"
  /\ handlers' = [handlers EXCEPT ![i].pc = "done"]
  /\ UNCHANGED <<callVars, fnVars, uiVars, userPrefs, wallet>>

AppNext ==
  \/ \E prefs \in PrefsArgs : OnboardingComplete(prefs)
  \/ \E i \in 1 .. Len(handlers) : TimerFires(i)
  \/ \E i \in 1 .. Len(handlers) :
       \E o \in Outcomes("getOnboardingRecommendations") : \E now \in Clock :
         FetchResponds(i, o, now)
  \/ \E i \in 1 .. Len(handlers) : FetchHangs(i)
  \/ \E i \in 1 .. Len(handlers) : Resume(i)

AppSpec == AppInit /\ [][AppNext]_vars

\* ---------------------------------------------------------- Onboarding
\* values in the sequence
Range(seq) == {seq[i] : i \in 1 .. Len(seq)}

\* onChange={(e) => setName(e.target.value)}: the input is shown at step 1
setName(value) ==
  /\ onboarding.step = 1
  /\ onboarding' = [onboarding EXCEPT !.name = value]
  /\ UNCHANGED <<callVars, fnVars, appVars, part, localStorage, storageLog, reader, session, detail>>

\* variant: the limit of three genres is not tested
toggleGenre_unlimited(g) ==
  /\ onboarding.step = 2
  /\ onboarding' =
       [onboarding EXCEPT !.selectedGenres =
          IF g \in Range(@) THEN SelectSeq(@, LAMBDA item : item # g) ELSE Append(@, g)]
  /\ UNCHANGED <<callVars, fnVars, appVars, part, localStorage, storageLog, reader, session, detail>>

\* a genre button is clicked: the buttons are shown at step 2
toggleGenre(g) ==
  /\ onboarding.step = 2
  /\ onboarding' =
       [onboarding EXCEPT !.selectedGenres =
          IF g \in Range(@) THEN SelectSeq(@, LAMBDA item : item # g)
          ELSE IF Len(@) < 3 THEN Append(@, g)
          ELSE @]
  /\ UNCHANGED <<callVars, fnVars, appVars, part, localStorage, storageLog, reader, session, detail>>

\* onClick={() => setSelectedGoal(goal.label)}: the goals are shown at step 3
setSelectedGoal(label) ==
  /\ onboarding.step = 3
  /\ onboarding' = [onboarding EXCEPT !.selectedGoal = label]
  /\ UNCHANGED <<callVars, fnVars, appVars, part, localStorage, storageLog, reader, session, detail>>

\* the Next / Finish Setup button is clicked; a disabled button (blank name,
\* no genre, no goal) gives no click. name.trim() is "" for "" and " ".
handleNext ==
  /\ IF onboarding.step = 1 THEN onboarding.name \notin {"", " "}
     ELSE IF onboarding.step = 2 THEN Len(onboarding.selectedGenres) # 0
     ELSE onboarding.selectedGoal # ""
  /\ onboarding' =
       IF onboarding.step = 1 /\ onboarding.name \notin {"", " "}
       THEN [onboarding EXCEPT !.step = 2]
       ELSE IF onboarding.step = 2 /\ Len(onboarding.selectedGenres) > 0
       THEN [onboarding EXCEPT !.step = 3]
       ELSE IF onboarding.step = 3 /\ onboarding.selectedGoal # ""
       THEN [onboarding EXCEPT !.onComplete = @ \cup
               {[name |-> onboarding.name, genres |-> onboarding.selectedGenres,
                 readingGoal |-> onboarding.selectedGoal, from |-> onboarding.step]}]
       ELSE onboarding
  /\ UNCHANGED <<callVars, fnVars, appVars, part, localStorage, storageLog, reader, session, detail>>

\* --------------------------------------------------------- storageService
MaxBooks == 2          \* books in a library

\* books as the application builds them: an uploaded PDF (addBookFromFile), a
\* book found by a search (no fileUrl, no description), a book with a link;
\* property values are written as JSON writes them
Books ==
  { [id |-> "local-1", isLocal |-> "true", fileUrl |-> "blob:1", description |-> "Imported PDF"],
    [id |-> "ol-1", isLocal |-> "false", fileUrl |-> Undef, description |-> Undef],
    [id |-> "ol-2", isLocal |-> "false", fileUrl |-> "https://x/2.pdf", description |-> "A novel"] }

UserIds == {"u1", "u1_library"}

\* variant: the key does not hold the user id
getKey_shared(userId, key) == "suitcase_" \o key

getKey(userId, key) == "suitcase_" \o userId \o "_" \o key

\* localStorage.setItem(key, value)
setItem(store, key, value) ==
  [k \in DOMAIN store \cup {key} |-> IF k = key THEN value ELSE store[k]]

\* JSON.stringify of an array of objects: a property whose value is
\* undefined is left out of the text
JSON_stringify(array) ==
  [i \in 1 .. Len(array) |->
     [f \in {g \in DOMAIN array[i] : array[i][g] # Undef} |-> array[i][f]]]

\* the browser is taken to accept the write (the catch only logs a refusal)
saveLibrary(userId, library) ==
  LET safeLibrary ==
        [i \in 1 .. Len(library) |->
           [library[i] EXCEPT !.fileUrl = IF library[i].isLocal = "true" THEN Undef ELSE @]]
  IN  /\ localStorage' =
           setItem(localStorage, getKey(userId, "library"), JSON_stringify(safeLibrary))
      /\ storageLog' = [storageLog EXCEPT !.saved = setItem(@, userId, library)]
      /\ UNCHANGED <<callVars, fnVars, appVars, part, onboarding, reader, session, detail>>

\* data ? JSON.parse(data) : []  (getItem gives null for a key never written;
\* JSON.parse gives back the objects with the properties the text holds)
loadLibrary(userId) ==
  LET key == getKey(userId, "library")
      books == IF key \in DOMAIN localStorage THEN localStorage[key] ELSE <<>>
  IN  /\ storageLog' = [storageLog EXCEPT !.loaded = [userId |-> userId, books |-> books]]
      /\ UNCHANGED <<callVars, fnVars, appVars, part, onboarding, localStorage, reader, session, detail>>

\* ------------------------------------------------------------------ Reader
MaxChapter == 3        \* chapters the reader goes to
MaxLoads == 2          \* loadContent calls in flight

\* Reader as mounted for a book: the state hooks; loads are the loadContent
\* calls awaiting generateBookContent (the chapter each asked for)
\* asks are the companion requests awaiting their answer
ReaderStart(book) ==
  [book |-> book, loading |-> TRUE, content |-> 0, currentChapter |-> 1, loads |-> EmptyBag,
   chatHistory |-> <<>>, isProcessing |-> FALSE, asks |-> {}]

\* loadContent(chapter) for a cloud book, up to its await
loadContent(r, chapter) ==
  [r EXCEPT !.loading = TRUE, !.loads = @ (+) SetToBag({chapter})]

\* the Next Chapter button, rendered with the content (not while loading)
handleNextChapter ==
  /\ ~reader.loading
  /\ reader.currentChapter < MaxChapter
  /\ BagCardinality(reader.loads) < MaxLoads
  /\ LET next == reader.currentChapter + 1
     IN  reader' = loadContent([reader EXCEPT !.currentChapter = next], next)
  /\ UNCHANGED <<callVars, fnVars, appVars, part, onboarding, localStorage, storageLog, session, detail>>

\* the Previous button, rendered with the content and disabled at chapter 1
handlePrevChapter ==
  /\ ~reader.loading
  /\ reader.currentChapter > 1
  /\ BagCardinality(reader.loads) < MaxLoads
  /\ LET prev == reader.currentChapter - 1
     IN  reader' = loadContent([reader EXCEPT !.currentChapter = prev], prev)
  /\ UNCHANGED <<callVars, fnVars, appVars, part, onboarding, localStorage, storageLog, session, detail>>

\* a chapter of the table of contents is clicked; the toolbar that opens the
\* table is rendered whether or not a chapter is loading
selectChapter(chapter) ==
  /\ BagCardinality(reader.loads) < MaxLoads
  /\ reader' = loadContent([reader EXCEPT !.currentChapter = chapter], chapter)
  /\ UNCHANGED <<callVars, fnVars, appVars, part, onboarding, localStorage, storageLog, session, detail>>

\* generateBookContent(.., chapter) resolves (it never rejects) and
\* loadContent goes on: setContent(markedText); setLoading(false)
contentLoaded(chapter) ==
  /\ BagIn(chapter, reader.loads)
  /\ reader' = [reader EXCEPT !.content = chapter, !.loading = FALSE,
                              !.loads = @ (-) SetToBag({chapter})]
  /\ UNCHANGED <<callVars, fnVars, appVars, part, onboarding, localStorage, storageLog, session, detail>>

\* --------------------------------------------------- Reader: companion chat
MaxTurns == 2          \* messages the user sends in one chat

\* a chat entry; turn tells the entries of one exchange from the others,
\* also when the same text is sent twice (kept for the properties only)
Entry(role, text, turn) == [role |-> role, text |-> text, turn |-> turn]

\* the messages Groq's chatAboutBook sends after the system message:
\* ...history.slice(-4).map(..), { role: "user", content: userMessage }
Groq_chatMessages(userMessage, history) ==
  Append(SubSeq(history, IF Len(history) > 4 THEN Len(history) - 3 ELSE 1, Len(history)),
         userMessage)

\* the chat form is submitted with a non-blank input: the user message is
\* appended, and chatAboutBook is called with the history of this render
handleChatSubmit(text) ==
  LET turn == Len(SelectSeq(reader.chatHistory, LAMBDA e : e.role = "user")) + 1
      msg == Entry("user", text, turn)
  IN  /\ turn <= MaxTurns
      /\ reader' = [reader EXCEPT
                      !.chatHistory = Append(@, msg),
                      !.isProcessing = TRUE,
                      !.asks = @ \cup {[turn |-> turn, fn |-> "chatAboutBook",
                                        messages |-> Groq_chatMessages(msg, reader.chatHistory)]}]
      /\ UNCHANGED <<callVars, fnVars, appVars, part, onboarding, localStorage, storageLog, session, detail>>

\* a quick action (Summarize, Recap) is clicked
handleAction(action) ==
  LET turn == Len(SelectSeq(reader.chatHistory, LAMBDA e : e.role = "user")) + 1
      msg == Entry("user", IF action = "summarize" THEN "Summarize this book."
                           ELSE "Where was I? Recap the context.", turn)
  IN  /\ turn <= MaxTurns
      /\ reader' = [reader EXCEPT
                      !.chatHistory = Append(@, msg),
                      !.isProcessing = TRUE,
                      !.asks = @ \cup {[turn |-> turn, messages |-> <<>>,
                                        fn |-> IF action = "summarize" THEN "getBookSummary"
                                               ELSE "getBookRecap"]}]
      /\ UNCHANGED <<callVars, fnVars, appVars, part, onboarding, localStorage, storageLog, session, detail>>

\* the capability call of a companion request resolves (it never rejects)
\* and the handler goes on: the reply is appended, isProcessing is cleared
companionReplied(ask) ==
  /\ ask \in reader.asks
  /\ reader' = [reader EXCEPT
                  !.chatHistory = Append(@, Entry("model", "reply", ask.turn)),
                  !.isProcessing = FALSE,
                  !.asks = @ \ {ask}]
  /\ UNCHANGED <<callVars, fnVars, appVars, part, onboarding, localStorage, storageLog, session, detail>>

\* ------------------------------------------------------- BookDetail: chat
\* BookDetail's handleChatSubmit: the submit button is disabled while
\* isChatting; chatAboutBook is called with newHistory
BookDetail_handleChatSubmit(text) ==
  LET turn == Len(SelectSeq(detail.chatHistory, LAMBDA e : e.role = "user")) + 1
      userMsg == Entry("user", text, turn)
      newHistory == Append(detail.chatHistory, userMsg)
  IN  /\ ~detail.isChatting
      /\ turn <= MaxTurns
      /\ detail' = [chatHistory |-> newHistory, isChatting |-> TRUE,
                    asks |-> detail.asks \cup
                               {[turn |-> turn, fn |-> "chatAboutBook",
                                 messages |-> Groq_chatMessages(userMsg, newHistory)]}]
      /\ UNCHANGED <<callVars, fnVars, appVars, part, onboarding, localStorage, storageLog, reader, session>>

\* chatAboutBook resolves: the reply is appended, isChatting is cleared
BookDetail_chatReplied(ask) ==
  /\ ask \in detail.asks
  /\ detail' = [chatHistory |-> Append(detail.chatHistory, Entry("model", "reply", ask.turn)),
                isChatting |-> FALSE,
                asks |-> detail.asks \ {ask}]
  /\ UNCHANGED <<callVars, fnVars, appVars, part, onboarding, localStorage, storageLog, reader, session>>

\* ------------------------------------------------ App: session and storage
\* what an earlier session of user u1 left in localStorage
StoredData ==
  [u \in {getKey("u1", "prefs"), getKey("u1", "library"), getKey("u1", "wallet")} |->
     IF u = getKey("u1", "prefs") THEN [genres |-> "Sci-Fi", readingGoal |-> "Relax & Escape"]
     ELSE IF u = getKey("u1", "library") THEN JSON_stringify(<<CHOOSE b \in Books : b.id = "ol-2">>)
     ELSE [balance |-> 50, nfts |-> <<"ol-2">>]]

\* App once loadUserData(userId) has run on StoredData: the user, the loaded
\* data (userPrefs is <<>> for null, else the one preferences object),
\* isDataLoaded; logout is handleLogout's position, signOut what
\* Firebase did with the sign-out (kept until the listener has been told)
SignedIn(userId) ==
  [currentUser |-> userId, isDataLoaded |-> TRUE,
   userPrefs |-> <<StoredData[getKey(userId, "prefs")]>>,
   myLibrary |-> StoredData[getKey(userId, "library")],
   wallet |-> StoredData[getKey(userId, "wallet")],
   logout |-> "idle", signOut |-> "none"]

\* the three save-on-change effects, run after the render of the state s
SaveOnChange(s, store) ==
  LET loaded == s.currentUser # "null" /\ s.isDataLoaded
      s1 == IF loaded /\ s.userPrefs # <<>>
            THEN setItem(store, getKey(s.currentUser, "prefs"), s.userPrefs[1]) ELSE store
      s2 == IF loaded
            THEN setItem(s1, getKey(s.currentUser, "library"),
                         JSON_stringify([i \in 1 .. Len(s.myLibrary) |->
                            [f \in DOMAIN s.myLibrary[i] |->
                               IF f = "fileUrl" /\ s.myLibrary[i].isLocal = "true"
                               THEN Undef ELSE s.myLibrary[i][f]]]))
            ELSE s1
  IN  IF loaded THEN setItem(s2, getKey(s.currentUser, "wallet"), s.wallet) ELSE s2

\* the Log out button: handleLogout runs up to await authService.logout();
\* signOut(auth) succeeds or fails (logout catches and logs the failure)
handleLogout(outcome) ==
  /\ session.currentUser # "null"
  /\ session.logout = "idle"
  /\ session' = [session EXCEPT !.logout = "awaiting", !.signOut = outcome]
  /\ localStorage' = SaveOnChange(session', localStorage)
  /\ UNCHANGED <<callVars, fnVars, appVars, part, onboarding, storageLog, reader, detail>>

\* authService.logout() has resolved: setUserPrefs(null); setMyLibrary([]);
\* setWallet({ balance: 0, nfts: [] }); then the render and its effects
logoutContinues ==
  /\ session.logout = "awaiting"
  /\ session' = [session EXCEPT !.logout = "done", !.userPrefs = <<>>, !.myLibrary = <<>>,
                                !.wallet = [balance |-> 0, nfts |-> <<>>]]
  /\ localStorage' = SaveOnChange(session', localStorage)
  /\ UNCHANGED <<callVars, fnVars, appVars, part, onboarding, storageLog, reader, detail>>

\* the onAuthStateChanged listener is called with null after a sign-out:
\* setCurrentUser(null); setView('auth'); setIsDataLoaded(true)
authStateChanged ==
  /\ session.signOut = "ok"
  /\ session' = [session EXCEPT !.currentUser = "null", !.isDataLoaded = TRUE,
                                !.signOut = "none"]
  /\ localStorage' = SaveOnChange(session', localStorage)
  /\ UNCHANGED <<callVars, fnVars, appVars, part, onboarding, storageLog, reader, detail>>

\* ------------------------------------- Reader: local PDF, finish and reward
MaxRewards == 2
MaxPages == 3

\* the uploaded PDF books of the library
LibraryIds == {"local-1", "local-2"}

\* App with the given files uploaded (files[id] is the number of pages of the
\* PDF of book id): no book has a lastPage yet (0 stands for undefined, which
\* the code treats alike: book.lastPage || 1, book.lastPage && ...)
Uploaded(files) ==
  [wallet |-> [balance |-> 0, nfts |-> <<>>],
   lastPage |-> [id \in LibraryIds |-> 0],
   files |-> files]

\* a book card's Read button: setActiveBook(book); setView('reader'); the
\* Reader mounts with numPages null, pageNumber book.lastPage || 1 and both
\* overlays hidden, and its sync effect writes lastPage: pageNumber
openReader(id) ==
  /\ reader.activeBook = "null"
  /\ reader' = [activeBook |-> id, showFinishModal |-> FALSE, showReward |-> FALSE,
                numPages |-> 0,
                pageNumber |-> IF session.lastPage[id] # 0 THEN session.lastPage[id] ELSE 1]
  /\ session' = [session EXCEPT !.lastPage[id] = reader'.pageNumber]
  /\ UNCHANGED <<callVars, fnVars, appVars, part, onboarding, localStorage, storageLog, detail>>

\* react-pdf has read the file: setNumPages(numPages); the saved page is
\* taken when there is one and the file has that many pages
onDocumentLoadSuccess ==
  /\ reader.activeBook # "null"
  /\ reader.numPages = 0
  /\ LET numPages == session.files[reader.activeBook]
         lastPage == session.lastPage[reader.activeBook]
     IN  /\ reader' = [reader EXCEPT !.numPages = numPages,
                                     !.pageNumber = IF lastPage # 0 /\ lastPage <= numPages
                                                    THEN lastPage ELSE @]
         /\ session' = [session EXCEPT !.lastPage[reader.activeBook] = reader'.pageNumber]
  /\ UNCHANGED <<callVars, fnVars, appVars, part, onboarding, localStorage, storageLog, detail>>

\* variant: the jump form takes any page number
pageControl_unchecked(control, page) ==
  /\ reader.activeBook # "null"
  /\ reader.numPages # 0
  /\ ~reader.showFinishModal /\ ~reader.showReward
  /\ CASE control = "previous" -> reader.pageNumber > 1
       [] control = "next" -> reader.pageNumber < reader.numPages
       [] control = "first" -> reader.pageNumber # 1
       [] control = "last" -> reader.pageNumber # reader.numPages
       [] control = "jump" -> TRUE
  /\ reader' = [reader EXCEPT !.pageNumber =
       CASE control = "previous" -> Math_max(1, @ - 1)
         [] control = "next" -> Math_min(reader.numPages, @ + 1)
         [] control = "first" -> 1
         [] control = "last" -> reader.numPages
         [] control = "jump" -> page]
  /\ session' = [session EXCEPT !.lastPage[reader.activeBook] = reader'.pageNumber]
  /\ UNCHANGED <<callVars, fnVars, appVars, part, onboarding, localStorage, storageLog, detail>>

\* the page controls, rendered once numPages is set: previous, next, First
\* and Last (each with its disabled condition) and the jump form, whose
\* input parses to page (0 also stands for an input that is not a number);
\* then the sync effect writes lastPage: pageNumber
pageControl(control, page) ==
  /\ reader.activeBook # "null"
  /\ reader.numPages # 0
  /\ ~reader.showFinishModal /\ ~reader.showReward
  /\ CASE control = "previous" -> reader.pageNumber > 1
       [] control = "next" -> reader.pageNumber < reader.numPages
       [] control = "first" -> reader.pageNumber # 1
       [] control = "last" -> reader.pageNumber # reader.numPages
       [] control = "jump" -> TRUE
  /\ reader' = [reader EXCEPT !.pageNumber =
       CASE control = "previous" -> Math_max(1, @ - 1)
         [] control = "next" -> Math_min(reader.numPages, @ + 1)
         [] control = "first" -> 1
         [] control = "last" -> reader.numPages
         [] control = "jump" -> IF page >= 1 /\ page <= reader.numPages THEN page ELSE @]
  /\ session' = [session EXCEPT !.lastPage[reader.activeBook] = reader'.pageNumber]
  /\ UNCHANGED <<callVars, fnVars, appVars, part, onboarding, localStorage, storageLog, detail>>

\* the toolbar's Finish button (covered by either overlay while it is shown)
handleFinishBook ==
  /\ reader.activeBook # "null"
  /\ ~reader.showFinishModal /\ ~reader.showReward
  /\ reader' = [reader EXCEPT !.showFinishModal = TRUE]
  /\ UNCHANGED <<callVars, fnVars, appVars, part, onboarding, localStorage, storageLog,
                 session, detail>>

\* Send & Claim Reward: setShowFinishModal(false); onUpdateBookData(book.id,
\* {isFinished: true}); setShowReward(true); onReward(), which is handleReward:
\* balance + 50 and the active book's id appended to nfts
submitToAuthor ==
  /\ reader.showFinishModal
  /\ Len(session.wallet.nfts) < MaxRewards
  /\ reader' = [reader EXCEPT !.showFinishModal = FALSE, !.showReward = TRUE]
  /\ session' = [session EXCEPT !.wallet = [balance |-> @.balance + 50,
                                            nfts |-> Append(@.nfts, reader.activeBook)]]
  /\ UNCHANGED <<callVars, fnVars, appVars, part, onboarding, localStorage, storageLog,
                 detail>>

\* the Reader's close button: onClose(), which is closeOverlay:
\* setView('library'); setActiveBook(null)
closeOverlay ==
  /\ reader.activeBook # "null"
  /\ ~reader.showFinishModal /\ ~reader.showReward
  /\ reader' = [reader EXCEPT !.activeBook = "null"]
  /\ UNCHANGED <<callVars, fnVars, appVars, part, onboarding, localStorage, storageLog,
                 session, detail>>

\* Add to Wallet on the reward overlay: setShowReward(false); onClose()
closeReward ==
  /\ reader.showReward
  /\ reader' = [reader EXCEPT !.activeBook = "null", !.showReward = FALSE]
  /\ UNCHANGED <<callVars, fnVars, appVars, part, onboarding, localStorage, storageLog,
                 session, detail>>

\* ------------------------------------------------- the user interface parts
Parts == {"App.session", "Reader.local", "Onboarding", "storageService", "Reader.chapters", "Reader.companion", "BookDetail"}

UiInit ==
  \* the Groq key is configured: the capability functions are Groq's
  /\ env = [VITE_GROQ_API_KEY |-> TRUE, VITE_GEMINI_API_KEY |-> FALSE,
            API_KEY |-> FALSE, VITE_HF_TOKEN |-> FALSE]
  /\ provider = getProvider(env)
  /\ calls = EmptyBag
  /\ failedBefore = FALSE /\ invokedAfter = FALSE /\ audit = FALSE
  /\ fnName = "none" /\ fnIn = NoInput /\ fnOut = NoOutput
  /\ AppStart
  /\ part \in Parts
  /\ onboarding = OnboardingStart
  /\ localStorage = IF part = "App.session" THEN StoredData ELSE <<>>
  /\ storageLog = [saved |-> <<>>, loaded |-> <<>>]
  \* the mount effect of a cloud book without stored content: loadContent(1)
  /\ reader = IF part \in {"Reader.chapters", "Reader.companion"}
              THEN loadContent(ReaderStart([id |-> "ol-1", isLocal |-> FALSE]), 1)
              ELSE IF part = "Reader.local"
              THEN [activeBook |-> "null", showFinishModal |-> FALSE, showReward |-> FALSE,
                    numPages |-> 0, pageNumber |-> 1]
              ELSE <<>>
  /\ session \in IF part = "App.session" THEN {SignedIn("u1")}
                 ELSE IF part = "Reader.local"
                 THEN {Uploaded(files) : files \in [LibraryIds -> 1 .. MaxPages]}
                 ELSE {<<>>}
  \* BookDetail as mounted: chatHistory [], isChatting false
  /\ detail = IF part = "BookDetail"
              THEN [chatHistory |-> <<>>, isChatting |-> FALSE, asks |-> {}]
              ELSE <<>>

UiNext ==
  \/ /\ part = "Onboarding"
     /\ \/ \E value \in {"", " ", "Ann"} : setName(value)
        \/ \E g \in {"Sci-Fi", "Mystery", "Romance", "History"} : toggleGenre(g)
        \/ \E label \in {"Relax & Escape", "Learn & Grow"} : setSelectedGoal(label)
        \/ handleNext
  \/ /\ part = "storageService"
     /\ \/ \E userId \in UserIds : \E n \in 0 .. MaxBooks : \E library \in [1 .. n -> Books] :
             saveLibrary(userId, library)
        \/ \E userId \in UserIds : loadLibrary(userId)
  \/ /\ part = "Reader.chapters"
     /\ \/ handleNextChapter
        \/ handlePrevChapter
        \/ \E chapter \in 1 .. MaxChapter : selectChapter(chapter)
        \/ \E chapter \in 1 .. MaxChapter : contentLoaded(chapter)
  \/ /\ part = "Reader.companion"
     /\ \/ \E text \in {"Who is Paul?", "Why?"} : handleChatSubmit(text)
        \/ \E action \in {"summarize", "recap"} : handleAction(action)
        \/ \E ask \in reader.asks : companionReplied(ask)
  \/ /\ part = "BookDetail"
     /\ \/ \E text \in {"Who is Paul?", "Why?"} : BookDetail_handleChatSubmit(text)
        \/ \E ask \in detail.asks : BookDetail_chatReplied(ask)
  \/ /\ part = "Reader.local"
     /\ \/ \E id \in LibraryIds : openReader(id)
        \/ onDocumentLoadSuccess
        \/ \E control \in {"previous", "next", "first", "last", "jump"} :
             \E page \in 0 .. MaxPages + 1 : pageControl(control, page)
        \/ closeOverlay
        \/ handleFinishBook
        \/ submitToAuthor
        \/ closeReward
  \/ /\ part = "App.session"
     /\ \/ \E outcome \in {"ok", "failed"} : handleLogout(outcome)
        \/ logoutContinues
        \/ authStateChanged

UiSpec == UiInit /\ [][UiNext]_vars

TypeOK ==
  /\ env \in Envs
  /\ provider \in {"groq", "gemini", "fallback"}
  /\ \A r \in Pending : r.pc \in {"awaitLive", "awaitHF", "done"}

\* ------------------------------------------------------------- properties
Settled == {r \in Pending : r.pc = "done"}

\* C1: no capability call ever rejects: whatever the credentials and whatever
\* the endpoints answer, a settled call holds a value.
C1_NeverRejects == \A r \in Pending : r.result # Rejected

\* chain exhaustion: the live attempt failed, the Hugging Face attempt failed,
\* and the call resolved to the literal
C1_W ==
  \E r \in Settled :
    r.liveReqs = 1 /\ r.hfReqs = 1 /\ r.static /\ r.result = Fallback_literal(r.op)

\* C2: every capability call settles in finite time, also when a request is
\* never answered: again and again all issued calls are settled.
C2_Terminates == []<>(\A r \in Pending : r.pc = "done")

\* C3: the selector binds by fixed priority Groq, Gemini, fallback;
\* getActiveProvider names the bound provider, every call runs the bound
\* service's function, and isAIAvailable is false exactly for "fallback".
C3_SelectorPriority ==
  /\ env.VITE_GROQ_API_KEY => getActiveProvider = "groq"
  /\ ~env.VITE_GROQ_API_KEY /\ env.VITE_GEMINI_API_KEY => getActiveProvider = "gemini"
  /\ ~env.VITE_GROQ_API_KEY /\ ~env.VITE_GEMINI_API_KEY => getActiveProvider = "fallback"
  /\ ~isAIAvailable <=> getActiveProvider = "fallback"
  /\ \A r \in Pending :
       r.svc = CASE getActiveProvider = "groq" -> "GroqService"
                 [] getActiveProvider = "gemini" -> "GeminiService"
                 [] OTHER -> "FallbackService"

C3_W ==
  /\ ~env.VITE_GROQ_API_KEY /\ env.VITE_GEMINI_API_KEY
  /\ isAIAvailable
  /\ \E r \in Pending : r.svc = "GeminiService"

\* the service bound at startup, and a call whose first attempt went to it
StartupService ==
  IF env.VITE_GROQ_API_KEY THEN "GroqService"
  ELSE IF env.VITE_GEMINI_API_KEY THEN "GeminiService"
  ELSE "FallbackService"

KeyOf(svc) ==
  CASE svc = "GroqService" -> env.VITE_GROQ_API_KEY
    [] svc = "GeminiService" -> env.API_KEY
    [] OTHER -> env.VITE_HF_TOKEN

FirstAttemptAtBound(r) ==
  /\ r.svc = StartupService
  /\ r.svc # "FallbackService" /\ KeyOf(r.svc) => r.liveReqs = 1

\* C4: no step changes what getActiveProvider returns, and after every step
\* each call issued so far, also one issued after a failed live attempt, has
\* made its first attempt at the adapter bound at startup.
C4_NoReselection ==
  [][ /\ getActiveProvider' = getActiveProvider
      /\ \A r \in BagToSet(calls') : FirstAttemptAtBound(r) ]_vars

\* a call was issued after another call's live attempt had failed over
C4_W ==
  /\ invokedAfter
  /\ isAIAvailable
  /\ \E r \in Settled : r.static /\ r.liveReqs = 1
  /\ \E r \in Pending : r.pc = "awaitLive"

\* C5: within a call at most one request goes to the live provider and at
\* most one to Hugging Face, the second only once the first is over, and no
\* two requests of a call are outstanding together.
C5_LinearChain ==
  \A r \in Pending :
    /\ r.liveReqs <= 1
    /\ r.hfReqs <= 1
    /\ Cardinality(r.open) <= 1
    /\ r.hfReqs = 1 => "live" \notin r.open /\ r.pc # "awaitLive"
    /\ r.pc = "done" => r.open = {}

C5_W ==
  \E r \in Pending :
    r.pc = "awaitHF" /\ r.liveReqs = 1 /\ r.hfReqs = 1 /\ r.open = {"hf"}

\* C6: a call on an adapter whose credential is absent sends no request to
\* that adapter's endpoint and runs the fallback service's function at once;
\* without its token the fallback service sends no request either.
C6_NoRequestWithoutCredential ==
  \A r \in Pending :
    /\ r.svc # "FallbackService" /\ ~KeyOf(r.svc) => r.liveReqs = 0 /\ r.static
    /\ ~KeyOf("FallbackService") => r.hfReqs = 0

C6_W ==
  \E r \in Pending :
    r.svc = "GeminiService" /\ ~env.API_KEY /\ r.liveReqs = 0 /\ r.static

\* the literals a fallback function can return without text from the model
StaticLiterals(op) ==
  {Fallback_literal(op)}
    \cup (IF op = "generateBookContent"
          THEN {VStr(TPlain("<p>Content generation failed.</p>"))} ELSE {})

\* C7: a fallback operation never rejects, and when its inference call fails,
\* answers without usable text, or has no token, it resolves to its literal.
C7_StaticResolvesToLiteral ==
  \A r \in Settled :
    r.static =>
      /\ r.result # Rejected
      /\ (r.hfReqs = 0 \/ r.hfAns \in {"failed", "unusable"})
           => r.result \in StaticLiterals(r.op)

\* C8: a structured operation whose live answer is text without any JSON in
\* it is handed to the fallback service, like a failed request.
C8_UnparseableIsFailure ==
  \A r \in Pending :
    r.op \in StructuredOps /\ r.liveAns = "prose" => r.static

\* C9: searchBooks answered by the live provider with a well-formed empty
\* array resolves to the empty sequence, and the fallback service is not run.
C9_EmptyIsSuccess ==
  \A r \in Pending :
    r.op = "searchBooks" /\ r.liveAns = "emptyArray"
      => r.pc = "done" /\ r.result = VBooks(<<>>) /\ ~r.static /\ r.hfReqs = 0

C9_W ==
  \E r \in Settled :
    r.op = "searchBooks" /\ r.liveAns = "emptyArray" /\ r.liveReqs = 1 /\ r.result.items = <<>>

\* C10: no string-valued operation resolves to the empty string.
C10_NeverEmptyString ==
  \A r \in Settled : r.op \in StringOps => r.result # VStr(TEmpty)

\* a call whose result was built from items a provider sent (not a literal)
FromProvider(r) ==
  /\ r.pc = "done"
  /\ r.result.t \in {"books", "concierge"}
  /\ r.result # Fallback_literal(r.op)

\* C11: in every book sequence built from a provider's answer, the match
\* reason, the category list and the cover colour of each item are defined
\* (a literal default stands in for a field the provider left out).
C11_OptionalFieldsDefaulted ==
  \A r \in Pending :
    FromProvider(r) =>
      \A i \in 1 .. Len(r.result.items) :
        /\ r.result.items[i].matchReason # Undef
        /\ r.result.items[i].categories # Undef
        /\ r.result.items[i].coverColor # Undef

ListOps == {"searchBooks", "getOnboardingRecommendations", "generateReviews"}

NoCredentials ==
  /\ ~env.VITE_GROQ_API_KEY /\ ~env.VITE_GEMINI_API_KEY
  /\ ~env.API_KEY /\ ~env.VITE_HF_TOKEN

\* C13: with no credential configured, any two getOnboardingRecommendations
\* calls, whatever their preferences, return the same sequence of books, and
\* it is the fixed literal one.
C13_FallbackDeterminism ==
  NoCredentials =>
    \A r1, r2 \in Pending :
      r1.op = "getOnboardingRecommendations" /\ r2.op = "getOnboardingRecommendations"
        => /\ r1.pc = "done" /\ r2.pc = "done"
           /\ r1.result = r2.result
           /\ r1.result = Fallback_literal("getOnboardingRecommendations")

\* two calls with different genres and goals have returned
C13_W ==
  /\ NoCredentials
  /\ \E r1, r2 \in Settled :
       /\ r1.op = "getOnboardingRecommendations" /\ r2.op = "getOnboardingRecommendations"
       /\ r1.arg.genres # r2.arg.genres /\ r1.arg.readingGoal # r2.arg.readingGoal
       /\ r1.result = r2.result /\ Len(r1.result.items) = 4

\* C14: when the live provider answers translateText with a non-empty text,
\* the call resolves to exactly that text; with no credential configured the
\* call resolves to the fallback service's literal placeholder.
C14_TranslationUnmodified ==
  [][ /\ \A r \in Pending : \A o \in Outcomes("translateText") : \A now \in Clock :
           ( /\ r.op = "translateText" /\ o.k = "ok" /\ ~IsEmptyText(o.text)
             /\ LiveRespond(r, o, now) )
             => \E q \in BagToSet(calls') :
                  /\ q.op = "translateText" /\ q.pc = "done" /\ q.arg = r.arg
                  /\ q.result = VStr(o.text) /\ ~q.static
      /\ NoCredentials =>
           \A q \in BagToSet(calls') :
             q.op = "translateText"
               => q.pc = "done" /\ q.result = VStr(TPlain("Translation service unavailable."))
    ]_vars

\* the live provider's padded translation came back as it was sent
C14_W ==
  \E r \in Settled :
    /\ r.op = "translateText" /\ r.liveReqs = 1 /\ r.liveAns = "prose" /\ ~r.static
    /\ r.result = VStr(TPlain(" Hello\n"))

\* the ids of the book suggestions a call returned
BookIds(r) ==
  IF r.pc = "done" /\ r.result.t \in {"books", "concierge"}
  THEN {r.result.items[i].id : i \in 1 .. Len(r.result.items)}
  ELSE {}

\* C15: the ids within one returned book sequence are pairwise distinct, and
\* no id returned by one call is returned by another call.
C15_FreshIds ==
  /\ \A r \in Pending :
       /\ Cardinality(BookIds(r)) = IF BookIds(r) = {} THEN 0 ELSE Len(r.result.items)
       /\ CopiesIn(r, calls) > 1 => BookIds(r) = {}
  /\ \A r1, r2 \in Pending : r1 # r2 => BookIds(r1) \cap BookIds(r2) = {}

\* the request of call r is answered and r settles with a value in that step
SettlesNow(r) ==
  \E o \in Outcomes(r.op) : \E now \in Clock :
    /\ LiveRespond(r, o, now) \/ HFRespond(r, o, now)
    /\ \E q \in BagToSet(calls') :
         /\ q.op = r.op /\ q.arg = r.arg /\ q.pc = "done" /\ q.result # Rejected
         /\ CopiesIn(q, calls') = CopiesIn(q, calls) + 1

\* C16: whatever other calls are hung at a request that is never answered, a
\* call whose own request is answered can settle with its result: a hung call
\* holds up only itself.
C16_HungCallBlocksOnlyItself ==
  \A r \in Pending :
    r.pc \in {"awaitLive", "awaitHF"} /\ ~r.lost => ENABLED SettlesNow(r)

\* one call is hung at the live provider, another has settled with the live
\* provider's answer
C16_W ==
  \E r1, r2 \in Pending :
    /\ r1.lost /\ r1.pc = "awaitLive"
    /\ r2.pc = "done" /\ ~r2.lost /\ r2.liveReqs = 1 /\ ~r2.static

\* the three attempts, each on the whole text: JSON.parse of the text, of the
\* text without its one code fence, of the first [...] or {...} span
DirectAttempt(x) == JSONparse(x)
FenceAttempt(x) == IF x.k \in {"fenced", "bareFenced"} THEN x.v ELSE NoJson

SpanAttempt(x) ==
  IF x.k \in {"json", "fenced", "embedded", "fencedProse", "bareFenced"} THEN x.v ELSE NoJson

ThreeAttempts(x) ==
  IF DirectAttempt(x) # NoJson THEN DirectAttempt(x)
  ELSE IF FenceAttempt(x) # NoJson THEN FenceAttempt(x)
  ELSE SpanAttempt(x)

\* what a normalizer returns for "unparseable"
Unparseable(fn) == IF fn = "Gemini.parseJSON" THEN JArr(<<>>) ELSE NoJson

\* C17: a normalizer returns the value of the first of the three attempts
\* (direct parse, parse without the fence, parse of the span) that succeeds,
\* and reports unparseable only when all three fail.
C17_ThreeAttemptsInOrder ==
  fnName \in Normalizers =>
    IF ThreeAttempts(fnIn.text) = NoJson
    THEN fnOut.json = Unparseable(fnName)
    ELSE fnOut.json = ThreeAttempts(fnIn.text)

\* C18: every request a translateText call sends, to the live provider or to
\* Hugging Face, asks for a translation into the caller's targetLang.
C18_TargetLangHonoured ==
  \A r \in Pending :
    r.op = "translateText" =>
      /\ r.liveReqs > 0 => r.liveLang = r.arg.targetLang
      /\ r.hfReqs > 0 => r.hfLang = r.arg.targetLang

\* C19: for every integer rating r the provider sends, generateReviews of
\* groqService returns r when 1 <= r <= 5, 1 when r < 1 and 5 when r > 5.
C19_RatingClamped ==
  fnName = "Groq.rating" /\ fnIn.rating.t = "num" =>
    LET r == fnIn.rating.n
    IN  fnOut.rating = Num(IF r < 1 THEN 1 ELSE IF r > 5 THEN 5 ELSE r)

\* C20: the step that switches to the library view or clears isCurating is
\* the rest of a run of handleOnboardingComplete whose timer has fired and
\* whose fetch has settled; it does both, and it shows what that fetch
\* returned.
C20_JoinNotRace ==
  [][ (view # "library" /\ view' = "library") \/ (isCurating /\ ~isCurating')
        => \E i \in 1 .. Len(handlers) :
             /\ handlers[i].pc = "await" /\ handlers'[i].pc = "done"
             /\ handlers[i].timer = "fired"
             /\ handlers[i].fetch.pc = "done"
             /\ view' = "library" /\ ~isCurating'
             /\ onboardingResults' = handlers[i].fetch.result.items ]_vars

\* both orders: one run went on after its fetch settled first and its timer
\* fired second, another after timer first and fetch second
C20_W ==
  /\ view = "library" /\ ~isCurating
  /\ \E i, j \in 1 .. Len(handlers) :
       /\ handlers[i].pc = "done" /\ handlers[i].first = "fetch"
       /\ handlers[j].pc = "done" /\ handlers[j].first = "timer"
       /\ handlers[j].fetch.liveReqs = 1
       /\ onboardingResults \in {handlers[i].fetch.result.items, handlers[j].fetch.result.items}

\* C21: the wizard's step stays or goes up by one; onComplete is called only
\* at step 3, with a non-blank name, one to three distinct genres and a
\* reading goal; and never more than three genres are selected.
C21_WizardForward ==
  [][ /\ onboarding'.step \in {onboarding.step, onboarding.step + 1}
      /\ onboarding'.step \in 1 .. 3
      /\ Len(onboarding'.selectedGenres) <= 3
      /\ \A prefs \in onboarding'.onComplete \ onboarding.onComplete :
           /\ onboarding.step = 3 /\ prefs.from = 3
           /\ prefs.name \notin {"", " "}
           /\ Len(prefs.genres) \in 1 .. 3
           /\ Cardinality(Range(prefs.genres)) = Len(prefs.genres)
           /\ prefs.readingGoal # "" ]_vars

\* the wizard finished with three genres
C21_W ==
  \E prefs \in onboarding.onComplete : Len(prefs.genres) = 3 /\ onboarding.step = 3

\* the value of a property of a parsed object (undefined when it has none)
Prop(object, f) == IF f \in DOMAIN object THEN object[f] ELSE Undef

C23_SelectorAdapterAgree ==
  isAIAvailable =>
    \A r \in Pending :
      /\ HasCredential(r.svc)
      /\ r.liveReqs = 1
      /\ r.svc = (IF getActiveProvider = "groq" THEN "GroqService" ELSE "GeminiService")

\* C24: in the Reader of a cloud book, loading is true while a chapter load
\* is in flight, and when none is, the content shown is the one fetched for
\* currentChapter.
C24_ContentMatchesChapter ==
  part = "Reader.chapters" =>
    /\ reader.loads # EmptyBag => reader.loading
    /\ reader.loads = EmptyBag => reader.content = reader.currentChapter

\* C25: in the companion chat every model reply stands directly after the
\* user message it answers, so the history alternates user, model, ...; and
\* isProcessing is true exactly while a companion request is pending.
C25_ChatAlternates ==
  part = "Reader.companion" =>
    /\ \A i \in 1 .. Len(reader.chatHistory) :
         LET e == reader.chatHistory[i]
         IN  IF i % 2 = 1 THEN e.role = "user"
             ELSE e.role = "model" /\ e.turn = reader.chatHistory[i - 1].turn
    /\ reader.isProcessing <=> reader.asks # {}

\* the chatAboutBook requests of the Reader companion and of BookDetail
ChatAsks ==
  IF part = "Reader.companion" THEN {a \in reader.asks : a.fn = "chatAboutBook"}
  ELSE IF part = "BookDetail" THEN detail.asks
  ELSE {}

\* C29: the messages a chatAboutBook call sends hold the current user message
\* once, as the last entry, and before it only entries of earlier turns.
C29_MessageSentOnce ==
  \A ask \in ChatAsks :
    LET m == ask.messages
    IN  /\ Len(m) > 0
        /\ m[Len(m)].role = "user" /\ m[Len(m)].turn = ask.turn
        /\ \A i \in 1 .. Len(m) - 1 : m[i].turn < ask.turn

\* C26: no step of a sign-out changes what localStorage holds under the keys
\* of the user who signs out.
C26_LogoutKeepsStoredData ==
  part = "App.session" => localStorage = StoredData

\* C27: no book id occurs twice in wallet.nfts, and the balance is 50 tokens
\* per distinct rewarded book.
C27_RewardedOnce ==
  part = "Reader.local" =>
    /\ \A i, j \in 1 .. Len(session.wallet.nfts) :
         session.wallet.nfts[i] = session.wallet.nfts[j] => i = j
    /\ session.wallet.balance = 50 * Cardinality(Range(session.wallet.nfts))

\* C28: once the PDF of a local book has loaded, the page number is within
\* 1..numPages, whatever lastPage the book carried when it was opened.
C28_PageInRange ==
  (part = "Reader.local" /\ reader.activeBook # "null" /\ reader.numPages # 0) =>
    reader.pageNumber \in 1 .. reader.numPages

\* a book reopened on its saved last page, in a file of several pages
C28_W ==
  /\ part = "Reader.local"
  /\ reader.activeBook # "null"
  /\ reader.numPages = MaxPages
  /\ reader.pageNumber = MaxPages - 1
  /\ session.lastPage[CHOOSE id \in LibraryIds : id # reader.activeBook] = 1

====
